---- MODULE Spec2Model ----
(***************************************************************************)
(* The N-body simulation component ThreeBodyProblem                        *)
(* (src/src/components/visualizations/ThreeBodyProblem.tsx): its React     *)
(* state, its event handlers, its scenario generators and its integrator   *)
(* loop, as a state machine.                                               *)
(*                                                                         *)
(* Numbers.  A JavaScript number is a binary floating-point value.  The    *)
(* model keeps the floating-point semantics (sign, mantissa, exponent,     *)
(* round to nearest after every operation) with a mantissa of MantBits     *)
(* bits instead of 53, so that every intermediate product fits TLC's       *)
(* 32-bit integers.  A number is the record [s, m, e] of value             *)
(* s * m * 2^e with m = 0 or 2^(MantBits-1) <= m < 2^MantBits.             *)
(***************************************************************************)
EXTENDS Integers, Sequences, FiniteSets, TLC

\* Width of the mantissa of a model number (a JavaScript number has 53 bits).
MantBits == 14

MantLo == 2 ^ (MantBits - 1)

MantHi == 2 ^ MantBits

\* The number 0.
FZero == [s |-> 1, m |-> 0, e |-> 0]

\* Number of binary digits of n >= 0.
RECURSIVE BitLen(_)
BitLen(n) ==
    IF n >= 65536 THEN 16 + BitLen(n \div 65536)
    ELSE IF n >= 256 THEN 8 + BitLen(n \div 256)
    ELSE IF n >= 16 THEN 4 + BitLen(n \div 16)
    ELSE IF n >= 4 THEN 2 + BitLen(n \div 4)
    ELSE IF n >= 2 THEN 2
    ELSE n

\* The number nearest to s * n * 2^e, for an integer 0 <= n < 2^31.
FNorm(s, n, e) ==
    IF n = 0 THEN FZero
    ELSE LET k == BitLen(n) - MantBits
         IN  IF k <= 0
             THEN [s |-> s, m |-> n * 2 ^ (0 - k), e |-> e + k]
             ELSE LET r == (n + 2 ^ (k - 1)) \div 2 ^ k
                  IN  IF r = MantHi
                      THEN [s |-> s, m |-> MantLo, e |-> e + k + 1]
                      ELSE [s |-> s, m |-> r, e |-> e + k]

\* The number nearest to the integer n.
FInt(n) == IF n < 0 THEN FNorm(-1, 0 - n, 0) ELSE FNorm(1, n, 0)

FNeg(a) == IF a.m = 0 THEN a ELSE [a EXCEPT !.s = 0 - a.s]

FMul(a, b) ==
    IF a.m = 0 \/ b.m = 0 THEN FZero
    ELSE FNorm(a.s * b.s, a.m * b.m, a.e + b.e)

\* a / b for b # 0.
FDiv(a, b) ==
    IF a.m = 0 THEN FZero
    ELSE FNorm(a.s * b.s, (a.m * 2 ^ (MantBits + 1)) \div b.m,
               a.e - b.e - (MantBits + 1))

\* a + b where a has the larger (or equal) exponent and neither is 0.
FAddOrdered(a, b) ==
    LET d == a.e - b.e
    IN  IF d > MantBits + 1 THEN a
        ELSE LET sum == a.s * a.m * 2 ^ d + b.s * b.m
             IN  IF sum < 0 THEN FNorm(-1, 0 - sum, b.e)
                 ELSE FNorm(1, sum, b.e)

FAdd(a, b) ==
    IF a.m = 0 THEN b
    ELSE IF b.m = 0 THEN a
    ELSE IF a.e >= b.e THEN FAddOrdered(a, b)
    ELSE FAddOrdered(b, a)

FSub(a, b) == FAdd(a, FNeg(b))

\* Floor of the square root of n > 0, by Newton's iteration from x >= sqrt(n).
RECURSIVE ISqrtFrom(_, _)
ISqrtFrom(n, x) ==
    LET y == (x + n \div x) \div 2
    IN  IF y >= x THEN x ELSE ISqrtFrom(n, y)

\* Math.sqrt(a) for a >= 0.
FSqrt(a) ==
    IF a.m = 0 THEN FZero
    ELSE LET k == IF (a.e - MantBits) % 2 = 0 THEN MantBits ELSE MantBits - 1
             n == a.m * 2 ^ k
             r == ISqrtFrom(n, MantHi)
             up == IF n - r * r > r THEN r + 1 ELSE r
         IN  FNorm(1, up, (a.e - k) \div 2)

\* a < b.
FLt(a, b) ==
    LET d == FSub(a, b)
    IN  d.m # 0 /\ d.s = -1

FLe(a, b) == ~FLt(b, a)

\* Math.max and Math.min.
FMax(a, b) == IF FLt(a, b) THEN b ELSE a

FMin(a, b) == IF FLt(b, a) THEN b ELSE a

\* The integer a number stands for, when it stands for one.
FToInt(a) ==
    IF a.e >= 0 THEN a.s * a.m * 2 ^ a.e
    ELSE a.s * (a.m \div 2 ^ (0 - a.e))

\* The decimal literal n / d of the source (0.03 is FDec(3, 100)).
FDec(n, d) == FDiv(FInt(n), FInt(d))

\* base^n for an integer n >= 0, by repeated squaring.
RECURSIVE FPowInt(_, _)
FPowInt(base, n) ==
    IF n = 0 THEN FInt(1)
    ELSE LET h == FPowInt(base, n \div 2)
             sq == FMul(h, h)
         IN  IF n % 2 = 1 THEN FMul(sq, base) ELSE sq

(***************************************************************************)
(* State.  The React state of the component (lines 20-25), the closure     *)
(* state of the simulation-loop effect (lines 621-679), the clock read by  *)
(* Date.now(), and the history variables last and ticks.  SpecTick also    *)
(* follows the objects behind the registry (heap, bodyRefs) and the update *)
(* of lines 626-672 statement by statement (tick, tickLog); the other      *)
(* specifications take a tick as one step and leave these four as they are.*)
(* SpecDraw follows the render-loop effect (lines 682-778): the draw loops *)
(* it has started and what the canvas shows.                               *)
(***************************************************************************)
VARIABLES
    bodies,           \* useState<Body[]>: the Body Registry, a sequence
    isRunning,        \* useState(false)
    mode,             \* "idle", "position" or "velocity"
    tempBody,         \* << >> for null, or <<[x, y, r]>>
    tempVelocity,     \* << >> for null, or <<[x, y]>>
    simulationSpeed,  \* useState(1.0)
    loopTimeStep,     \* << >>, or <<timeStep>> as captured by the live effect closure
    pendingUpdates,   \* update callbacks requestAnimationFrame holds
    now,              \* Date.now(), in milliseconds; the clock stands still here
    ticks,            \* integrator ticks applied since the registry was last replaced
    last,             \* history: the last handler that ran and the state it ran in
    heap,             \* the Body objects reachable from the state or from a running update
    bodyRefs,         \* the array held as `bodies`, as indices into heap
    tick,             \* the update in progress: its position and its nextBodies array
    tickLog,          \* history: snapshot, timeStep, speed and result of each update
    drawLoops,        \* the `bodies` each draw callback held by requestAnimationFrame closes over
    painted           \* the registry the canvas shows: the `bodies` of the last draw() that ran

vars == <<bodies, isRunning, mode, tempBody, tempVelocity, simulationSpeed,
          loopTimeStep, pendingUpdates, now, ticks, last,
          heap, bodyRefs, tick, tickLog, drawLoops, painted>>

objectVars == <<heap, bodyRefs, tick, tickLog>>

paintVars == <<drawLoops, painted>>

\* ---- bounds of the model ----

\* canvas.width and canvas.height (window.innerWidth - 300, window.innerHeight).
CanvasWidth == 1000

CanvasHeight == 800

\* Placement is modelled while the registry holds fewer bodies than this.
MaxBodies == 2

\* Integrator ticks modelled on one registry in Spec and SpecCmd.
MaxTicks == 1

\* Integrator ticks modelled on one registry in SpecLong: more than maxTrail.
MaxLongTicks == 2002

\* Date.now() is modelled from 0 up to this many milliseconds in SpecClock.
MaxClock == 3

\* Updates followed statement by statement in one behaviour of SpecTick.
MaxRuns == 2

\* Draw loops followed in SpecDraw.
MaxDrawLoops == 4

\* Animation frames taken in one step of SpecLong's bursts.
BurstLen == 1000

\* The values of simulationSpeed in Spec: the initial speed and one step up.
ModelSpeeds == {FInt(1), FDiv(FInt(5), FInt(4))}

\* Pointer locations (canvas coordinates) of the pointer-move events in Spec
\* and SpecCmd, and of their pointer-down events: the two are 500 apart.
Points == {<<400, 500>>}

DownPoints == {<<100, 100>>}

\* Pointer locations in SpecPlace: from <<100, 100>> they are at distances
\* 0, 5, 40 and 500.
PlacePoints == {<<100, 100>>, <<103, 104>>, <<124, 132>>, <<400, 500>>}

PlaceDownPoints == {<<100, 100>>}

\* ---- program constants ----

COLORS == <<"#f97316", "#3b82f6", "#ef4444", "#a855f7", "#22c55e", "#ffffff">>

G == FDec(1, 10)

maxTrail == 2000

baseTimeStep == FDec(2, 10)

\* timeStep of the render in which simulationSpeed is speed.
timeStep(speed) == FMul(baseTimeStep, speed)

Null == << >>

Some(v) == <<v>>

\* The history record of a handler op about to run in the current state: the
\* state it runs in, and whether a pointer-move has been handled since the
\* pointer-down that began the placement now pending.
Hist(op) ==
    [op |-> op, running |-> isRunning, mode |-> mode, nonEmpty |-> Len(bodies) > 0,
     moved |-> mode # "idle" /\ last.moved]

\* A mass mapping that saturates at one million.
calculateLogMass_capped(radius) ==
    FMin(FMul(FPowInt(FDec(115, 100), FToInt(radius)), FInt(5)), FInt(1000000))

\* Math.pow(1.15, radius) * 5, for a radius that is a whole number.
calculateLogMass(radius) == FMul(FPowInt(FDec(115, 100), FToInt(radius)), FInt(5))

\* A Body object literal with an empty trail.
Body(id, x, y, vx, vy, mass, visualRadius, color) ==
    [id |-> id, x |-> x, y |-> y, vx |-> vx, vy |-> vy, mass |-> mass,
     visualRadius |-> visualRadius, color |-> color, trail |-> << >>]

\* ---- the simulation-loop effect (deps [isRunning]) ----

\* An effect without its cleanup: no cancelAnimationFrame when a run ends.
LoopEffect_noCancel(running) ==
    IF running = isRunning
    THEN UNCHANGED <<loopTimeStep, pendingUpdates>>
    ELSE IF running
    THEN /\ loopTimeStep' = Some(timeStep(simulationSpeed))
         /\ pendingUpdates' = pendingUpdates + 1
    ELSE UNCHANGED <<loopTimeStep, pendingUpdates>>

\* The effect's cleanup and body as isRunning changes from the current value to
\* `running`: cancelAnimationFrame(animationFrameId) when a run ends,
\* requestAnimationFrame(update) with the render's timeStep when one starts.
LoopEffect(running) ==
    IF running = isRunning
    THEN UNCHANGED <<loopTimeStep, pendingUpdates>>
    ELSE IF running
    THEN /\ loopTimeStep' = Some(timeStep(simulationSpeed))
         /\ pendingUpdates' = pendingUpdates + 1
    ELSE /\ loopTimeStep' = Null
         /\ pendingUpdates' = IF pendingUpdates > 0 THEN pendingUpdates - 1 ELSE 0

\* ---- reset (CLEAR) ----

\* A reset without its setIsRunning(false).
reset_keepsRunning ==
    /\ bodies' = << >>
    /\ mode' = "idle"
    /\ tempBody' = Null
    /\ tempVelocity' = Null
    /\ ticks' = 0
    /\ UNCHANGED <<isRunning, loopTimeStep, pendingUpdates, simulationSpeed, now>>

\* A reset without its setTempVelocity(null).
reset_keepsTarget ==
    /\ bodies' = << >>
    /\ isRunning' = FALSE
    /\ mode' = "idle"
    /\ tempBody' = Null
    /\ LoopEffect(FALSE)
    /\ ticks' = 0
    /\ UNCHANGED <<tempVelocity, simulationSpeed, now>>

reset ==
    /\ bodies' = << >>
    /\ isRunning' = FALSE
    /\ mode' = "idle"
    /\ tempBody' = Null
    /\ tempVelocity' = Null
    /\ LoopEffect(FALSE)
    /\ ticks' = 0
    /\ UNCHANGED <<simulationSpeed, now>>

\* ---- ENGAGE / HALT ----

\* An onClick that also cancels the pending placement.
toggleRunning_cancelsPlacement ==
    /\ isRunning' = ~isRunning
    /\ LoopEffect(~isRunning)
    /\ mode' = "idle"
    /\ tempBody' = Null
    /\ tempVelocity' = Null
    /\ UNCHANGED <<bodies, simulationSpeed, now, ticks>>

\* The button's onClick: setIsRunning(!isRunning).
toggleRunning ==
    /\ isRunning' = ~isRunning
    /\ LoopEffect(~isRunning)
    /\ UNCHANGED <<bodies, mode, tempBody, tempVelocity, simulationSpeed, now, ticks>>

\* ---- pointer handlers ----

\* A handleMouseDown without its `if (mode === 'idle')`.
handleMouseDown_anyMode(p) ==
    /\ last' = Hist("mouseDown")
    /\ IF isRunning
       THEN UNCHANGED <<mode, tempBody>>
       ELSE /\ tempBody' = Some([x |-> FInt(p[1]), y |-> FInt(p[2]), r |-> FInt(10)])
            /\ mode' = "position"
    /\ UNCHANGED <<bodies, isRunning, tempVelocity, simulationSpeed,
                   loopTimeStep, pendingUpdates, now, ticks>>

handleMouseDown(p) ==
    /\ last' = Hist("mouseDown")
    /\ IF isRunning
       THEN UNCHANGED <<mode, tempBody>>
       ELSE IF mode = "idle"
       THEN /\ tempBody' = Some([x |-> FInt(p[1]), y |-> FInt(p[2]), r |-> FInt(10)])
            /\ mode' = "position"
       ELSE UNCHANGED <<mode, tempBody>>
    /\ UNCHANGED <<bodies, isRunning, tempVelocity, simulationSpeed,
                   loopTimeStep, pendingUpdates, now, ticks>>

\* Math.sqrt((x - tempBody.x) ** 2 + (y - tempBody.y) ** 2)
PointerDist(x, y, tb) ==
    LET dx == FSub(x, tb.x)
        dy == FSub(y, tb.y)
    IN  FSqrt(FAdd(FMul(dx, dx), FMul(dy, dy)))

\* A clamp without its upper limit: Math.max(10, dist).
ClampRadius_noMax(dist) == FMax(FInt(10), dist)

\* Math.max(10, Math.min(100, dist))
ClampRadius(dist) == FMax(FInt(10), FMin(FInt(100), dist))

\* A handleMouseMove without its `if (isRunning) return`.
handleMouseMove_duringRun(p) ==
    LET x == FInt(p[1])
        y == FInt(p[2])
    IN  /\ last' = [Hist("mouseMove") EXCEPT !.moved = (mode # "idle")]
        /\ IF mode = "position" /\ tempBody # Null
           THEN /\ tempBody' = Some([tempBody[1] EXCEPT
                                       !.r = ClampRadius(PointerDist(x, y, tempBody[1]))])
                /\ UNCHANGED tempVelocity
           ELSE IF mode = "velocity" /\ tempBody # Null
           THEN /\ tempVelocity' = Some([x |-> x, y |-> y])
                /\ UNCHANGED tempBody
           ELSE UNCHANGED <<tempBody, tempVelocity>>
        /\ UNCHANGED <<bodies, isRunning, mode, simulationSpeed,
                       loopTimeStep, pendingUpdates, now, ticks>>

\* A handleMouseMove that goes on scaling the radius while the velocity is chosen.
handleMouseMove_rescales(p) ==
    LET x == FInt(p[1])
        y == FInt(p[2])
    IN  /\ last' = [Hist("mouseMove") EXCEPT !.moved = (mode # "idle")]
        /\ IF isRunning
           THEN UNCHANGED <<tempBody, tempVelocity>>
           ELSE IF mode = "position" /\ tempBody # Null
           THEN /\ tempBody' = Some([tempBody[1] EXCEPT
                                       !.r = ClampRadius(PointerDist(x, y, tempBody[1]))])
                /\ UNCHANGED tempVelocity
           ELSE IF mode = "velocity" /\ tempBody # Null
           THEN /\ tempVelocity' = Some([x |-> x, y |-> y])
                /\ tempBody' = Some([tempBody[1] EXCEPT
                                       !.r = ClampRadius(PointerDist(x, y, tempBody[1]))])
           ELSE UNCHANGED <<tempBody, tempVelocity>>
        /\ UNCHANGED <<bodies, isRunning, mode, simulationSpeed,
                       loopTimeStep, pendingUpdates, now, ticks>>

handleMouseMove(p) ==
    LET x == FInt(p[1])
        y == FInt(p[2])
    IN  /\ last' = [Hist("mouseMove") EXCEPT !.moved = (mode # "idle")]
        /\ IF isRunning
           THEN UNCHANGED <<tempBody, tempVelocity>>
           ELSE IF mode = "position" /\ tempBody # Null
           THEN /\ tempBody' = Some([tempBody[1] EXCEPT
                                       !.r = ClampRadius(PointerDist(x, y, tempBody[1]))])
                /\ UNCHANGED tempVelocity
           ELSE IF mode = "velocity" /\ tempBody # Null
           THEN /\ tempVelocity' = Some([x |-> x, y |-> y])
                /\ UNCHANGED tempBody
           ELSE UNCHANGED <<tempBody, tempVelocity>>
        /\ UNCHANGED <<bodies, isRunning, mode, simulationSpeed,
                       loopTimeStep, pendingUpdates, now, ticks>>

\* A placement that takes the radius itself as the mass.
NewBody_radiusAsMass(tb, tv) ==
    [Body(now, tb.x, tb.y,
          FMul(FSub(tv.x, tb.x), FDec(3, 100)),
          FMul(FSub(tv.y, tb.y), FDec(3, 100)),
          tb.r, tb.r,
          COLORS[(Len(bodies) % Len(COLORS)) + 1])
     EXCEPT !.trail = << >>]

\* The Body handleMouseUp builds from the pending body and the velocity target.
NewBody(tb, tv) ==
    [Body(now, tb.x, tb.y,
          FMul(FSub(tv.x, tb.x), FDec(3, 100)),
          FMul(FSub(tv.y, tb.y), FDec(3, 100)),
          calculateLogMass(tb.r), tb.r,
          COLORS[(Len(bodies) % Len(COLORS)) + 1])
     EXCEPT !.trail = << >>]

handleMouseUp ==
    /\ last' = Hist("mouseUp")
    /\ IF isRunning
       THEN UNCHANGED <<bodies, mode, tempBody, tempVelocity>>
       ELSE IF mode = "position" /\ tempBody # Null
       THEN /\ mode' = "velocity"
            /\ UNCHANGED <<bodies, tempBody, tempVelocity>>
       ELSE IF mode = "velocity" /\ tempBody # Null /\ tempVelocity # Null
       THEN /\ Len(bodies) < MaxBodies
            /\ bodies' = Append(bodies, NewBody(tempBody[1], tempVelocity[1]))
            /\ tempBody' = Null
            /\ tempVelocity' = Null
            /\ mode' = "idle"
       ELSE UNCHANGED <<bodies, mode, tempBody, tempVelocity>>
    /\ UNCHANGED <<isRunning, simulationSpeed, loopTimeStep, pendingUpdates, now, ticks>>

(***************************************************************************)
(* Scenario generators (lines 98-561).  canvasRef.current is the mounted   *)
(* canvas, so the `if (!canvas) return` of each generator is never taken.  *)
(***************************************************************************)
centerX == FDiv(FInt(CanvasWidth), FInt(2))

centerY == FDiv(FInt(CanvasHeight), FInt(2))

\* The body lists below give each id as its offset from Date.now(); Stamped
\* adds the clock reading of the call.
Stamped(bs) == [i \in 1..Len(bs) |-> [bs[i] EXCEPT !.id = now + @]]

\* A generator tail that adds its bodies to the registry: setBodies(prev => [...prev, ...bs]).
Generate_appends(bs) ==
    /\ bodies' = bodies \o Stamped(bs)
    /\ mode' = "idle"
    /\ tempBody' = Null
    /\ tempVelocity' = Null
    /\ ticks' = 0
    /\ UNCHANGED <<isRunning, simulationSpeed, loopTimeStep, pendingUpdates, now>>

\* The tail every generator ends with: setBodies(bs); setMode('idle');
\* setTempBody(null); setTempVelocity(null).  isRunning is not written.
Generate(bs) ==
    /\ bodies' = Stamped(bs)
    /\ mode' = "idle"
    /\ tempBody' = Null
    /\ tempVelocity' = Null
    /\ ticks' = 0
    /\ UNCHANGED <<isRunning, simulationSpeed, loopTimeStep, pendingUpdates, now>>

\* The orbital pair with its speed computed from a gravitational constant of 1.
OrbitalPairBodies_otherG ==
    LET orbitRadius == FInt(200)
        centralRadius == FInt(60)
        centralMass == calculateLogMass(centralRadius)
        orbitingRadius == FInt(25)
        orbitingMass == calculateLogMass(orbitingRadius)
        orbitalSpeed == FSqrt(FDiv(FMul(FInt(1), centralMass), orbitRadius))
    IN  << Body(0, centerX, centerY, FZero, FZero,
                centralMass, centralRadius, "#f97316"),
           Body(1, FAdd(centerX, orbitRadius), centerY, FZero, orbitalSpeed,
                orbitingMass, orbitingRadius, "#3b82f6") >>

OrbitalPairBodies ==
    LET orbitRadius == FInt(200)
        centralRadius == FInt(60)
        centralMass == calculateLogMass(centralRadius)
        orbitingRadius == FInt(25)
        orbitingMass == calculateLogMass(orbitingRadius)
        orbitalSpeed == FSqrt(FDiv(FMul(G, centralMass), orbitRadius))
    IN  << Body(0, centerX, centerY, FZero, FZero,
                centralMass, centralRadius, "#f97316"),
           Body(1, FAdd(centerX, orbitRadius), centerY, FZero, orbitalSpeed,
                orbitingMass, orbitingRadius, "#3b82f6") >>

createOrbitalPair == Generate(OrbitalPairBodies)

\* A binary system whose distances from the centre are weighted by the bodies'
\* own masses, not by each other's.
BinarySystemBodies_ownMass ==
    LET separation == FInt(250)
        radius1 == FInt(40)
        radius2 == FInt(35)
        mass1 == calculateLogMass(radius1)
        mass2 == calculateLogMass(radius2)
        totalMass == FAdd(mass1, mass2)
        r1 == FMul(FDiv(mass1, totalMass), separation)
        r2 == FMul(FDiv(mass2, totalMass), separation)
        omega == FSqrt(FDiv(FMul(G, totalMass), FPowInt(separation, 3)))
        v1 == FMul(omega, r1)
        v2 == FMul(omega, r2)
    IN  << Body(0, FSub(centerX, r1), centerY, FZero, FNeg(v1),
                mass1, radius1, "#ef4444"),
           Body(1, FAdd(centerX, r2), centerY, FZero, v2,
                mass2, radius2, "#a855f7") >>

BinarySystemBodies ==
    LET separation == FInt(250)
        radius1 == FInt(40)
        radius2 == FInt(35)
        mass1 == calculateLogMass(radius1)
        mass2 == calculateLogMass(radius2)
        totalMass == FAdd(mass1, mass2)
        r1 == FMul(FDiv(mass2, totalMass), separation)
        r2 == FMul(FDiv(mass1, totalMass), separation)
        omega == FSqrt(FDiv(FMul(G, totalMass), FPowInt(separation, 3)))
        v1 == FMul(omega, r1)
        v2 == FMul(omega, r2)
    IN  << Body(0, FSub(centerX, r1), centerY, FZero, FNeg(v1),
                mass1, radius1, "#ef4444"),
           Body(1, FAdd(centerX, r2), centerY, FZero, v2,
                mass2, radius2, "#a855f7") >>

createBinarySystem == Generate(BinarySystemBodies)

Figure8Bodies ==
    LET radius == FInt(30)
        mass == calculateLogMass(radius)
        x_offset == FInt(97)
        v_offset == FDec(35, 100)
    IN  << Body(0, FSub(centerX, x_offset), centerY,
                FDec(93, 1000), FAdd(FDec(125, 1000), v_offset),
                mass, radius, "#f97316"),
           Body(1, FAdd(centerX, x_offset), centerY,
                FDec(93, 1000), FAdd(FDec(125, 1000), v_offset),
                mass, radius, "#3b82f6"),
           Body(2, centerX, centerY,
                FDec(-186, 1000), FSub(FDec(-25, 100), FMul(FInt(2), v_offset)),
                mass, radius, "#22c55e") >>

\* A createFigure8 without its setMode('idle').
createFigure8_keepsMode ==
    /\ bodies' = Stamped(Figure8Bodies)
    /\ tempBody' = Null
    /\ tempVelocity' = Null
    /\ ticks' = 0
    /\ UNCHANGED <<mode, isRunning, simulationSpeed, loopTimeStep, pendingUpdates, now>>

createFigure8 == Generate(Figure8Bodies)

LagrangeTriangleBodies ==
    LET sideLength == FInt(220)
        height == FMul(FDiv(FSqrt(FInt(3)), FInt(2)), sideLength)
        radius1 == FInt(45)
        radius2 == FInt(45)
        radius3 == FInt(25)
        mass1 == calculateLogMass(radius1)
        mass2 == calculateLogMass(radius2)
        mass3 == calculateLogMass(radius3)
        totalMass == FAdd(FAdd(mass1, mass2), mass3)
        omega == FMul(FSqrt(FDiv(FMul(G, totalMass), FPowInt(sideLength, 3))),
                      FDec(8, 10))
    IN  << Body(0, FSub(centerX, FDiv(sideLength, FInt(2))),
                FAdd(centerY, FDiv(height, FInt(3))),
                FMul(omega, FDiv(height, FInt(3))),
                FMul(omega, FDiv(sideLength, FInt(2))),
                mass1, radius1, "#f97316"),
           Body(1, FAdd(centerX, FDiv(sideLength, FInt(2))),
                FAdd(centerY, FDiv(height, FInt(3))),
                FMul(omega, FDiv(height, FInt(3))),
                FMul(FNeg(omega), FDiv(sideLength, FInt(2))),
                mass2, radius2, "#3b82f6"),
           Body(2, centerX,
                FSub(centerY, FDiv(FMul(FInt(2), height), FInt(3))),
                FMul(FNeg(omega), FDiv(FMul(FInt(2), height), FInt(3))),
                FZero,
                mass3, radius3, "#22c55e") >>

createLagrangeTriangle == Generate(LagrangeTriangleBodies)

\* Values Math.random() returns in the model.
RandomValues == {FZero, FDec(1, 2)}

\* The twelve Math.random() results of one createThreeBodyChaos call, in the
\* order the calls are made: all equal, or alternating.
RandomDraws ==
    {[i \in 1..12 |-> v] : v \in RandomValues}
        \cup {[i \in 1..12 |-> IF i % 2 = 1 THEN FZero ELSE FDec(1, 2)]}

\* Math.cos and Math.sin of (id * 120) * Math.PI / 180 for id 0, 1, 2.
Cos120(id) == IF id = 0 THEN FInt(1) ELSE FDec(-1, 2)

Sin120(id) ==
    IF id = 0 THEN FZero
    ELSE IF id = 1 THEN FDec(8660254, 10000000)
    ELSE FDec(-8660254, 10000000)

\* createRandomBody(id, colorIndex) with its four random numbers rnd[k+1..k+4].
createRandomBody(id, colorIndex, rnd, k) ==
    LET distance == FAdd(FInt(100), FMul(rnd[k + 1], FInt(50)))
        radius == FAdd(FInt(25), FMul(rnd[k + 2], FInt(20)))
    IN  Body(id,
             FAdd(centerX, FMul(Cos120(id), distance)),
             FAdd(centerY, FMul(Sin120(id), distance)),
             FMul(FSub(rnd[k + 3], FDec(5, 10)), FDec(4, 10)),
             FMul(FSub(rnd[k + 4], FDec(5, 10)), FDec(4, 10)),
             calculateLogMass(radius), radius, COLORS[colorIndex + 1])

ThreeBodyChaosBodies(rnd) ==
    << createRandomBody(0, 0, rnd, 0),
       createRandomBody(1, 1, rnd, 4),
       createRandomBody(2, 2, rnd, 8) >>

\* The body lists createThreeBodyChaos can build.
ChaosOutcomes == {ThreeBodyChaosBodies(rnd) : rnd \in RandomDraws}

createThreeBodyChaos == \E bs \in ChaosOutcomes : Generate(bs)

SlingshotBodies ==
    LET largeMass == calculateLogMass(FInt(55))
        smallRadius == FInt(15)
        smallMass == calculateLogMass(smallRadius)
    IN  << Body(0, centerX, centerY, FZero, FZero,
                largeMass, FInt(55), "#f97316"),
           Body(1, FSub(centerX, FInt(300)), FSub(centerY, FInt(100)),
                FDec(15, 10), FDec(3, 10),
                smallMass, smallRadius, "#22c55e") >>

createSlingshot == Generate(SlingshotBodies)

CollisionCourseBodies ==
    LET radius == FInt(35)
        mass == calculateLogMass(radius)
        separation == FInt(350)
        speed == FDec(6, 10)
    IN  << Body(0, FSub(centerX, separation), FSub(centerY, FInt(30)),
                speed, FDec(15, 100), mass, radius, "#ef4444"),
           Body(1, FAdd(centerX, separation), FAdd(centerY, FInt(30)),
                FNeg(speed), FDec(-15, 100), mass, radius, "#3b82f6") >>

createCollisionCourse == Generate(CollisionCourseBodies)

MultiPlanetBodies ==
    LET starRadius == FInt(50)
        starMass == calculateLogMass(starRadius)
    IN  << Body(0, centerX, centerY, FZero, FZero,
                starMass, starRadius, "#f97316"),
           Body(1, FAdd(centerX, FInt(120)), centerY, FZero,
                FSqrt(FDiv(FMul(G, starMass), FInt(120))),
                calculateLogMass(FInt(15)), FInt(15), "#3b82f6"),
           Body(2, FAdd(centerX, FInt(200)), centerY, FZero,
                FSqrt(FDiv(FMul(G, starMass), FInt(200))),
                calculateLogMass(FInt(20)), FInt(20), "#22c55e"),
           Body(3, FAdd(centerX, FInt(280)), centerY, FZero,
                FSqrt(FDiv(FMul(G, starMass), FInt(280))),
                calculateLogMass(FInt(18)), FInt(18), "#a855f7") >>

createMultiPlanet == Generate(MultiPlanetBodies)

EccentricCometBodies ==
    LET starRadius == FInt(55)
        starMass == calculateLogMass(starRadius)
        perihelion == FInt(100)
        eccentricity == FDec(7, 10)
        vPerihelion ==
            FMul(FSqrt(FMul(FDiv(FMul(G, starMass), perihelion),
                            FAdd(FInt(1), eccentricity))),
                 FDec(9, 10))
    IN  << Body(0, centerX, centerY, FZero, FZero,
                starMass, starRadius, "#f97316"),
           Body(1, FAdd(centerX, perihelion), centerY, FZero, vPerihelion,
                calculateLogMass(FInt(12)), FInt(12), "#22c55e") >>

createEccentricComet == Generate(EccentricCometBodies)

(***************************************************************************)
(* The integrator: the update callback of the simulation loop              *)
(* (lines 626-675).                                                        *)
(***************************************************************************)
\* A trail update without its slice(-maxTrail).
NextTrail_noSlice(b) == Append(b.trail, [x |-> b.x, y |-> b.y])

\* A trail update that keeps the first maxTrail points: slice(0, maxTrail).
NextTrail_keepsOldest(b) ==
    LET t == Append(b.trail, [x |-> b.x, y |-> b.y])
    IN  IF Len(t) > maxTrail THEN SubSeq(t, 1, maxTrail) ELSE t

\* [...b.trail, { x: b.x, y: b.y }].slice(-maxTrail)
NextTrail(b) ==
    LET t == Append(b.trail, [x |-> b.x, y |-> b.y])
    IN  IF Len(t) > maxTrail THEN SubSeq(t, Len(t) - maxTrail + 1, Len(t)) ELSE t

\* A copy that returns the bodies in reverse order.
CopyWithTrail_reversed(prev) ==
    [i \in 1..Len(prev) |->
        [prev[Len(prev) + 1 - i] EXCEPT !.trail = NextTrail(prev[Len(prev) + 1 - i])]]

\* prevBodies.map(b => ({ ...b, trail: ... }))
CopyWithTrail(prev) == [i \in 1..Len(prev) |-> [prev[i] EXCEPT !.trail = NextTrail(prev[i])]]

\* A force that falls with the distance, not with its square.
AddForce_inverseLinear(f, b1, b2) ==
    LET dx == FSub(b2.x, b1.x)
        dy == FSub(b2.y, b1.y)
        distSq == FAdd(FAdd(FMul(dx, dx), FMul(dy, dy)), FInt(500))
        dist == FSqrt(distSq)
        Force == FDiv(FMul(FMul(G, b1.mass), b2.mass), dist)
    IN  << FAdd(f[1], FMul(Force, FDiv(dx, dist))),
           FAdd(f[2], FMul(Force, FDiv(dy, dist))) >>

\* A squared distance without the softening term.
SoftenedDistSq_unsoftened(b1, b2) ==
    LET dx == FSub(b2.x, b1.x)
        dy == FSub(b2.y, b1.y)
    IN  FAdd(FMul(dx, dx), FMul(dy, dy))

\* const distSq = dx * dx + dy * dy + 500
SoftenedDistSq(b1, b2) ==
    LET dx == FSub(b2.x, b1.x)
        dy == FSub(b2.y, b1.y)
    IN  FAdd(FAdd(FMul(dx, dx), FMul(dy, dy)), FInt(500))

\* One pass of the inner loop: the force of b2 on b1 added to <<fx, fy>>.
AddForce(f, b1, b2) ==
    LET dx == FSub(b2.x, b1.x)
        dy == FSub(b2.y, b1.y)
        dist == FSqrt(SoftenedDistSq(b1, b2))
        Force == FDiv(FMul(FMul(G, b1.mass), b2.mass), SoftenedDistSq(b1, b2))
    IN  << FAdd(f[1], FMul(Force, FDiv(dx, dist))),
           FAdd(f[2], FMul(Force, FDiv(dy, dist))) >>

\* The inner loop from j on, for body i of nb (indices from 1).
RECURSIVE NetForce(_, _, _, _)
NetForce(nb, i, j, f) ==
    IF j > Len(nb) THEN f
    ELSE IF i = j THEN NetForce(nb, i, j + 1, f)
    ELSE NetForce(nb, i, j + 1, AddForce(f, nb[i], nb[j]))

\* An outer-loop body that reads the speed of the current render in place of
\* the timeStep it is given.
Accelerate_currentSpeed(nb, i, dt) ==
    LET f == NetForce(nb, i, 1, <<FZero, FZero>>)
        ax == FDiv(f[1], nb[i].mass)
        ay == FDiv(f[2], nb[i].mass)
    IN  [nb EXCEPT ![i].vx = FAdd(nb[i].vx, FMul(ax, timeStep(simulationSpeed))),
                   ![i].vy = FAdd(nb[i].vy, FMul(ay, timeStep(simulationSpeed)))]

\* The body of the outer loop for body i: b1.vx += ax * dt; b1.vy += ay * dt.
Accelerate(nb, i, dt) ==
    LET f == NetForce(nb, i, 1, <<FZero, FZero>>)
        ax == FDiv(f[1], nb[i].mass)
        ay == FDiv(f[2], nb[i].mass)
    IN  [nb EXCEPT ![i].vx = FAdd(nb[i].vx, FMul(ax, dt)),
                   ![i].vy = FAdd(nb[i].vy, FMul(ay, dt))]

\* The outer loop from i on; nextBodies is updated in place.
RECURSIVE VelocityLoop(_, _, _)
VelocityLoop(nb, i, dt) ==
    IF i > Len(nb) THEN nb ELSE VelocityLoop(Accelerate(nb, i, dt), i + 1, dt)

\* nextBodies.forEach(b => { b.x += b.vx * dt; b.y += b.vy * dt })
MoveAll(nb, dt) ==
    [i \in 1..Len(nb) |-> [nb[i] EXCEPT !.x = FAdd(nb[i].x, FMul(nb[i].vx, dt)),
                                        !.y = FAdd(nb[i].y, FMul(nb[i].vy, dt))]]

\* An update that moves the bodies before it computes the forces.
Integrate_positionsFirst(prev, dt) == VelocityLoop(MoveAll(CopyWithTrail(prev), dt), 1, dt)

\* The functional update passed to setBodies.
Integrate(prev, dt) == MoveAll(VelocityLoop(CopyWithTrail(prev), 1, dt), dt)

\* One animation frame of the loop: update runs with the timeStep its closure
\* captured and schedules itself again.  cap bounds the ticks modelled.
update(cap) ==
    /\ pendingUpdates > 0
    /\ ticks < cap
    /\ last' = Hist("update")
    /\ bodies' = Integrate(bodies, loopTimeStep[1])
    /\ ticks' = ticks + 1
    /\ UNCHANGED <<isRunning, mode, tempBody, tempVelocity, simulationSpeed,
                   loopTimeStep, pendingUpdates, now>>

\* Integrate applied n times: the registry after n consecutive frames.  Each
\* intermediate registry is evaluated (its length taken) before it is passed on.
RECURSIVE IntegrateTimes(_, _, _)
IntegrateTimes(prev, dt, n) ==
    IF n = 0 THEN prev
    ELSE LET m == IF n % 2 = 1 THEN n - 1 ELSE n \div 2
             mid == IntegrateTimes(prev, dt, m)
         IN  IF Len(mid) < 0 THEN mid
             ELSE IF n % 2 = 1 THEN Integrate(mid, dt)
             ELSE IntegrateTimes(mid, dt, m)

\* BurstLen consecutive animation frames with no other event handled between
\* them, as one step: update runs BurstLen times, each run scheduling the next.
\* The burst starts on a whole multiple of BurstLen ticks.
updateBurst(cap) ==
    /\ pendingUpdates > 0
    /\ ticks % BurstLen = 0
    /\ ticks + BurstLen <= cap
    /\ last' = Hist("update")
    /\ bodies' = IntegrateTimes(bodies, loopTimeStep[1], BurstLen)
    /\ ticks' = ticks + BurstLen
    /\ UNCHANGED <<isRunning, mode, tempBody, tempVelocity, simulationSpeed,
                   loopTimeStep, pendingUpdates, now>>

(***************************************************************************)
(* Speed controls (lines 80-96).                                           *)
(***************************************************************************)
\* An increaseSpeed updater without its Math.min(..., 50.0).
IncreasedSpeed_noClamp(prev) ==
    IF FLe(FInt(50), prev) THEN FInt(50)
    ELSE IF FLt(prev, FInt(5)) THEN FAdd(prev, FDec(25, 100))
    ELSE IF FLt(prev, FInt(20)) THEN FAdd(prev, FInt(1))
    ELSE FAdd(prev, FInt(5))

IncreasedSpeed(prev) ==
    IF FLe(FInt(50), prev) THEN FInt(50)
    ELSE IF FLt(prev, FInt(5)) THEN FMin(FAdd(prev, FDec(25, 100)), FInt(50))
    ELSE IF FLt(prev, FInt(20)) THEN FMin(FAdd(prev, FInt(1)), FInt(50))
    ELSE FMin(FAdd(prev, FInt(5)), FInt(50))

DecreasedSpeed(prev) ==
    IF FLe(prev, FDec(1, 10)) THEN FDec(1, 10)
    ELSE IF FLe(prev, FInt(5)) THEN FMax(FSub(prev, FDec(25, 100)), FDec(1, 10))
    ELSE IF FLe(prev, FInt(20)) THEN FMax(FSub(prev, FInt(1)), FDec(1, 10))
    ELSE FMax(FSub(prev, FInt(5)), FDec(1, 10))

increaseSpeed ==
    /\ simulationSpeed' = IncreasedSpeed(simulationSpeed)
    /\ UNCHANGED <<bodies, isRunning, mode, tempBody, tempVelocity,
                   loopTimeStep, pendingUpdates, now, ticks>>

decreaseSpeed ==
    /\ simulationSpeed' = DecreasedSpeed(simulationSpeed)
    /\ UNCHANGED <<bodies, isRunning, mode, tempBody, tempVelocity,
                   loopTimeStep, pendingUpdates, now, ticks>>

(***************************************************************************)
(* The buttons of the control panel (lines 806-931).                       *)
(***************************************************************************)
\* A click on a button with onClick={handler} disabled={disabled}: a disabled
\* button dispatches no click, so no handler runs.
Button(op, disabled, handler) ==
    /\ ~disabled
    /\ last' = Hist(op)
    /\ handler

ClickClear == Button("reset", FALSE, reset)

ClickOrbital == Button("createOrbitalPair", isRunning, createOrbitalPair)

ClickBinary == Button("createBinarySystem", isRunning, createBinarySystem)

ClickSlingshot == Button("createSlingshot", isRunning, createSlingshot)

ClickCollision == Button("createCollisionCourse", isRunning, createCollisionCourse)

ClickComet == Button("createEccentricComet", isRunning, createEccentricComet)

ClickPlanets == Button("createMultiPlanet", isRunning, createMultiPlanet)

\* A FIGURE-8 button without its disabled attribute.
ClickFigure8_alwaysEnabled == Button("createFigure8", FALSE, createFigure8)

ClickFigure8 == Button("createFigure8", isRunning, createFigure8)

ClickLagrange == Button("createLagrangeTriangle", isRunning, createLagrangeTriangle)

ClickChaos == Button("createThreeBodyChaos", isRunning, createThreeBodyChaos)

ClickSpeedUp ==
    /\ IncreasedSpeed(simulationSpeed) \in ModelSpeeds
    /\ Button("increaseSpeed", FLe(FInt(50), simulationSpeed), increaseSpeed)

ClickSpeedDown ==
    /\ DecreasedSpeed(simulationSpeed) \in ModelSpeeds
    /\ Button("decreaseSpeed", FLe(simulationSpeed, FDec(1, 10)), decreaseSpeed)

\* An ENGAGE / HALT button without its disabled attribute.
ClickEngage_alwaysEnabled == Button("toggleRunning", FALSE, toggleRunning)

ClickEngage == Button("toggleRunning", Len(bodies) < 2, toggleRunning)

\* ---- handlers and objects ----

\* No update is running.
IdleTick == [pc |-> "idle", work |-> << >>, i |-> 0, pre |-> << >>]

\* A handler taken at the level of the registry's value, a tick being one step:
\* the objects behind the registry are not followed.
Untracked(handler) == handler /\ UNCHANGED objectVars /\ UNCHANGED paintVars

Init ==
    /\ bodies = << >>
    /\ isRunning = FALSE
    /\ mode = "idle"
    /\ tempBody = Null
    /\ tempVelocity = Null
    /\ simulationSpeed = FInt(1)
    /\ loopTimeStep = Null
    /\ pendingUpdates = 0
    /\ now = 0
    /\ ticks = 0
    /\ last = [op |-> "mount", running |-> FALSE, mode |-> "idle", nonEmpty |-> FALSE,
               moved |-> FALSE]
    /\ heap = << >>
    /\ bodyRefs = << >>
    /\ tick = IdleTick
    /\ tickLog = << >>
    /\ drawLoops = << << >> >>
    /\ painted = << >>

Next ==
    \/ \E p \in DownPoints : Untracked(handleMouseDown(p))
    \/ \E p \in Points : Untracked(handleMouseMove(p))
    \/ Untracked(handleMouseUp)
    \/ Untracked(ClickEngage)
    \/ Untracked(ClickClear)
    \/ Untracked(ClickSpeedUp)
    \/ Untracked(ClickSpeedDown)
    \/ Untracked(ClickOrbital)
    \/ Untracked(ClickBinary)
    \/ Untracked(ClickSlingshot)
    \/ Untracked(ClickCollision)
    \/ Untracked(ClickComet)
    \/ Untracked(ClickPlanets)
    \/ Untracked(ClickFigure8)
    \/ Untracked(ClickLagrange)
    \/ Untracked(ClickChaos)
    \/ Untracked(update(MaxTicks))

Spec == Init /\ [][Next]_vars

(***************************************************************************)
(* SpecCmd: the handlers called as functions, as the commands of the       *)
(* component's interface, without the disabled attributes of the buttons   *)
(* that wrap them in the JSX.                                              *)
(***************************************************************************)
Call(op, handler) ==
    /\ last' = Hist(op)
    /\ handler

NextCmd ==
    \/ \E p \in DownPoints : Untracked(handleMouseDown(p))
    \/ \E p \in Points : Untracked(handleMouseMove(p))
    \/ Untracked(handleMouseUp)
    \/ Untracked(Call("toggleRunning", toggleRunning))
    \/ Untracked(Call("reset", reset))
    \/ Untracked(Call("createOrbitalPair", createOrbitalPair))
    \/ Untracked(Call("createBinarySystem", createBinarySystem))
    \/ Untracked(Call("createSlingshot", createSlingshot))
    \/ Untracked(Call("createCollisionCourse", createCollisionCourse))
    \/ Untracked(Call("createEccentricComet", createEccentricComet))
    \/ Untracked(Call("createMultiPlanet", createMultiPlanet))
    \/ Untracked(Call("createFigure8", createFigure8))
    \/ Untracked(Call("createLagrangeTriangle", createLagrangeTriangle))
    \/ Untracked(Call("createThreeBodyChaos", createThreeBodyChaos))
    \/ Untracked(update(MaxTicks))

SpecCmd == Init /\ [][NextCmd]_vars

(***************************************************************************)
(* SpecPlace: the placement protocol on a wider set of pointer locations,  *)
(* with reset and one generator, and no run.                               *)
(***************************************************************************)
NextPlace ==
    \/ \E p \in PlaceDownPoints : Untracked(handleMouseDown(p))
    \/ \E p \in PlacePoints : Untracked(handleMouseMove(p))
    \/ Untracked(handleMouseUp)
    \/ Untracked(ClickClear)
    \/ Untracked(ClickSlingshot)

SpecPlace == Init /\ [][NextPlace]_vars

(***************************************************************************)
(* SpecLong: a scenario, or two bodies placed with the pointer, run for     *)
(* more ticks than a trail holds, with stops, restarts, a new generator run *)
(* and reset at any tick.  Frames are taken one at a time, and also in     *)
(* bursts of BurstLen, which reach no state that single frames do not.     *)
(***************************************************************************)
\* In SpecLong the pointer is used on a registry that has not been integrated
\* yet and holds fewer bodies than a run needs.
PlaceBeforeRun(handler) ==
    /\ ticks = 0
    /\ Len(bodies) < 2
    /\ handler

NextLong ==
    \/ \E p \in DownPoints : Untracked(PlaceBeforeRun(handleMouseDown(p)))
    \/ \E p \in Points : Untracked(PlaceBeforeRun(handleMouseMove(p)))
    \/ Untracked(PlaceBeforeRun(handleMouseUp))
    \/ Untracked(ClickOrbital)
    \/ Untracked(ClickEngage)
    \/ Untracked(ClickClear)
    \/ Untracked(update(MaxLongTicks))
    \/ Untracked(updateBurst(MaxLongTicks))

SpecLong == Init /\ [][NextLong]_vars

(***************************************************************************)
(* SpecClock: placement, one generator and reset with a clock that may     *)
(* advance between any two handlers, or not.                               *)
(***************************************************************************)
\* A millisecond passes.
ClockAdvance ==
    /\ now < MaxClock
    /\ now' = now + 1
    /\ last' = Hist("clock")
    /\ UNCHANGED <<bodies, isRunning, mode, tempBody, tempVelocity, simulationSpeed,
                   loopTimeStep, pendingUpdates, ticks>>

NextClock ==
    \/ Untracked(ClockAdvance)
    \/ \E p \in DownPoints : Untracked(handleMouseDown(p))
    \/ \E p \in Points : Untracked(handleMouseMove(p))
    \/ Untracked(handleMouseUp)
    \/ Untracked(ClickOrbital)
    \/ Untracked(ClickClear)

SpecClock == Init /\ [][NextClock]_vars

(***************************************************************************)
(* SpecMass: two bodies placed with every whole-number radius of 10..100.  *)
(***************************************************************************)
\* Pointer positions at distance 10..100 from the pointer-down point.
MassPoints == {<<100 + d, 100>> : d \in 10..100}

\* The pointer moves, once in a placement, while the radius is being chosen.
SweepRadius == mode = "position" /\ ~last.moved /\ \E p \in MassPoints : handleMouseMove(p)

\* The pointer moves while the velocity is being chosen.
AimVelocity == mode = "velocity" /\ \E p \in Points : handleMouseMove(p)

NextMass ==
    \/ Len(bodies) < 2 /\ \E p \in DownPoints : Untracked(handleMouseDown(p))
    \/ Untracked(SweepRadius)
    \/ Untracked(AimVelocity)
    \/ Untracked(handleMouseUp)
    \/ Untracked(ClickClear)

SpecMass == Init /\ [][NextMass]_vars

(***************************************************************************)
(* SpecSpeed: increaseSpeed and decreaseSpeed called any number of times,   *)
(* over the whole range of simulationSpeed.                                *)
(***************************************************************************)
NextSpeed ==
    \/ Untracked(Call("increaseSpeed", increaseSpeed))
    \/ Untracked(Call("decreaseSpeed", decreaseSpeed))

SpecSpeed == Init /\ [][NextSpeed]_vars

(***************************************************************************)
(* SpecTick: the functional update of lines 626-672 statement by statement *)
(* on Body objects, with two generators, reset, ENGAGE and the speed       *)
(* buttons between updates.  A Body object is an entry of heap (its trail  *)
(* array with it) and an array of bodies is a sequence of indices.  heap   *)
(* holds the objects that the state or the update in progress can reach:   *)
(* what neither reaches any more can be written by no statement.           *)
(***************************************************************************)
\* The objects an array refers to, in the array's order.
Deref(refs) == [k \in 1..Len(refs) |-> heap[refs[k]]]

\* A handler that calls setBodies with an array of new objects.
Replacing(handler) ==
    /\ tick.pc = "idle"
    /\ handler
    /\ heap' = bodies'
    /\ bodyRefs' = [k \in 1..Len(bodies') |-> k]
    /\ UNCHANGED <<tick, tickLog>>
    /\ UNCHANGED paintVars

\* A handler that leaves the `bodies` state alone.
Keeping(handler) ==
    /\ tick.pc = "idle"
    /\ handler
    /\ UNCHANGED objectVars
    /\ UNCHANGED paintVars

\* An update whose nextBodies are the objects of prevBodies themselves.
WorkRefs_shared(n) == bodyRefs

\* prevBodies.map(b => ({ ...b, trail: ... })): n objects that did not exist.
WorkRefs(n) == [k \in 1..n |-> Len(heap) + k]

\* An animation frame calls update; React calls the updater with the current
\* array; line 629 builds nextBodies.
tickCopy ==
    /\ tick.pc = "idle"
    /\ pendingUpdates > 0
    /\ Len(tickLog) < MaxRuns
    /\ heap' = heap \o CopyWithTrail(Deref(bodyRefs))
    /\ tick' = [pc |-> IF Len(bodyRefs) = 0 THEN "commit" ELSE "velocity",
                work |-> WorkRefs(Len(bodyRefs)), i |-> 1, pre |-> Deref(bodyRefs)]
    /\ UNCHANGED <<bodies, isRunning, mode, tempBody, tempVelocity, simulationSpeed,
                   loopTimeStep, pendingUpdates, now, ticks, last, bodyRefs, tickLog,
                   drawLoops, painted>>

\* One pass of the outer loop of lines 632-660: b1 = nextBodies[i] is written.
tickVelocity ==
    /\ tick.pc = "velocity"
    /\ heap' = [heap EXCEPT ![tick.work[tick.i]] =
                    Accelerate(Deref(tick.work), tick.i, loopTimeStep[1])[tick.i]]
    /\ tick' = IF tick.i = Len(tick.work)
               THEN [tick EXCEPT !.pc = "position", !.i = 1]
               ELSE [tick EXCEPT !.i = tick.i + 1]
    /\ UNCHANGED <<bodies, isRunning, mode, tempBody, tempVelocity, simulationSpeed,
                   loopTimeStep, pendingUpdates, now, ticks, last, bodyRefs, tickLog,
                   drawLoops, painted>>

\* One call of the forEach callback of lines 663-669.
tickPosition ==
    /\ tick.pc = "position"
    /\ heap' = [heap EXCEPT ![tick.work[tick.i]] =
                    MoveAll(Deref(tick.work), loopTimeStep[1])[tick.i]]
    /\ tick' = IF tick.i = Len(tick.work)
               THEN [tick EXCEPT !.pc = "commit"]
               ELSE [tick EXCEPT !.i = tick.i + 1]
    /\ UNCHANGED <<bodies, isRunning, mode, tempBody, tempVelocity, simulationSpeed,
                   loopTimeStep, pendingUpdates, now, ticks, last, bodyRefs, tickLog,
                   drawLoops, painted>>

\* return [...nextBodies]: the result becomes the `bodies` state, the objects
\* of the previous array are out of the state's reach, and update asks for the
\* next frame.
tickCommit ==
    /\ tick.pc = "commit"
    /\ last' = Hist("update")
    /\ bodies' = Deref(tick.work)
    /\ heap' = Deref(tick.work)
    /\ bodyRefs' = [k \in 1..Len(tick.work) |-> k]
    /\ tick' = IdleTick
    /\ tickLog' = Append(tickLog, [pre |-> tick.pre, dt |-> loopTimeStep[1],
                                   speed |-> simulationSpeed, post |-> Deref(tick.work)])
    /\ ticks' = ticks + 1
    /\ UNCHANGED <<isRunning, mode, tempBody, tempVelocity, simulationSpeed,
                   loopTimeStep, pendingUpdates, now, drawLoops, painted>>

NextTick ==
    \/ Replacing(ClickOrbital)
    \/ Replacing(ClickFigure8)
    \/ Replacing(ClickClear)
    \/ Keeping(ClickEngage)
    \/ Keeping(ClickSpeedUp)
    \/ Keeping(ClickSpeedDown)
    \/ tickCopy
    \/ tickVelocity
    \/ tickPosition
    \/ tickCommit

SpecTick == Init /\ [][NextTick]_vars

(***************************************************************************)
(* Properties.                                                             *)
(***************************************************************************)
\* The value of last.op after each pointer handler and after each generator.
PointerOps == {"mouseDown", "mouseMove", "mouseUp"}

GeneratorOps ==
    {"createOrbitalPair", "createBinarySystem", "createSlingshot",
     "createCollisionCourse", "createEccentricComet", "createMultiPlanet",
     "createFigure8", "createLagrangeTriangle", "createThreeBodyChaos"}

(***************************************************************************)
(* SpecDraw: the render-loop effect of lines 682-778 with the pointer, a    *)
(* generator, reset, ENGAGE and the integrator.  The effect has no cleanup: *)
(* each run of it calls draw(), which paints the `bodies` of its render and *)
(* asks for the next frame with the same closure, for ever.                *)
(***************************************************************************)
\* The step changed a dependency of the effect, [bodies, tempBody,
\* tempVelocity, mode], compared with Object.is: a value that differs, or a new
\* array or object that holds the same value as the one before.
DepsChanged ==
    \/ <<bodies', tempBody', tempVelocity', mode'>> # <<bodies, tempBody, tempVelocity, mode>>
    \/ last'.op \in GeneratorOps \cup {"reset", "update"}
    \/ last'.op = "mouseMove" /\ ~isRunning /\ mode # "idle" /\ tempBody # Null

\* A handler followed by the render it causes: when a dependency changed the
\* effect runs, and its draw() paints the new registry and starts one more loop.
Rendered(handler) ==
    /\ handler
    /\ IF DepsChanged
       THEN /\ Len(drawLoops) < MaxDrawLoops
            /\ drawLoops' = Append(drawLoops, bodies')
            /\ painted' = bodies'
       ELSE UNCHANGED paintVars
    /\ UNCHANGED objectVars

\* An animation frame runs the callback of draw loop k: it paints the registry
\* of its closure and asks for the next frame.
draw(k) ==
    /\ painted' = drawLoops[k]
    /\ UNCHANGED <<bodies, isRunning, mode, tempBody, tempVelocity, simulationSpeed,
                   loopTimeStep, pendingUpdates, now, ticks, last, drawLoops>>
    /\ UNCHANGED objectVars

NextDraw ==
    \/ \E p \in DownPoints : Rendered(handleMouseDown(p))
    \/ \E p \in Points : Rendered(handleMouseMove(p))
    \/ Rendered(handleMouseUp)
    \/ Rendered(ClickOrbital)
    \/ Rendered(ClickEngage)
    \/ Rendered(ClickClear)
    \/ Rendered(update(MaxTicks))
    \/ \E k \in 1..Len(drawLoops) : draw(k)

SpecDraw == Init /\ [][NextDraw]_vars

\* C1: in every reachable state isRunning implies that the registry holds at
\* least 2 bodies, and no step taken with 0 or 1 bodies in the registry ends
\* with isRunning true.
C1_RunningNeedsTwoBodies ==
    /\ [](isRunning => Len(bodies) >= 2)
    /\ [][Len(bodies) < 2 => ~isRunning']_vars

\* A run has just been started with the ENGAGE button.
C1_RunStarted ==
    /\ last.op = "toggleRunning"
    /\ ~last.running
    /\ isRunning
    /\ Len(bodies) >= 2

\* C2: a pointer-down, pointer-move or pointer-up handled while isRunning is
\* true leaves mode, tempBody, tempVelocity and bodies as they were.
C2_PointerIgnoredWhileRunning ==
    [][(isRunning /\ last'.op \in PointerOps)
          => UNCHANGED <<mode, tempBody, tempVelocity, bodies>>]_vars

\* A pointer-move was handled during a run that began in the middle of a
\* placement.
C2_MoveDuringRun ==
    /\ last.op = "mouseMove"
    /\ last.running
    /\ isRunning
    /\ mode = "position"

\* C3 as stated: a step that changes the registry while isRunning is true is an
\* integrator tick, and no tick happens while isRunning is false.
C3_OnlyTicksWriteWhileRunning ==
    /\ [][(isRunning /\ bodies' # bodies) => last'.op = "update"]_vars
    /\ [][~isRunning => last'.op # "update"]_vars

\* C3 (amended): while isRunning is true no generator runs, no pointer handler
\* changes the registry, and a step that changes the registry is an integrator
\* tick or reset (which ends the run); while isRunning is false no integrator
\* tick happens.
C3_WriterRoles ==
    [][/\ isRunning => last'.op \notin GeneratorOps
       /\ (isRunning /\ last'.op \in PointerOps) => bodies' = bodies
       /\ (isRunning /\ bodies' # bodies) => last'.op \in {"update", "reset"}
       /\ ~isRunning => last'.op # "update"]_vars

\* reset has emptied a registry that a run was integrating.
C3_ResetDuringRun ==
    /\ last.op = "reset"
    /\ last.running
    /\ last.nonEmpty
    /\ ticks = 0
    /\ bodies = << >>

ScenarioBodies(op) ==
    CASE op = "createOrbitalPair" -> {OrbitalPairBodies}
      [] op = "createBinarySystem" -> {BinarySystemBodies}
      [] op = "createSlingshot" -> {SlingshotBodies}
      [] op = "createCollisionCourse" -> {CollisionCourseBodies}
      [] op = "createEccentricComet" -> {EccentricCometBodies}
      [] op = "createFigure8" -> {Figure8Bodies}
      [] op = "createLagrangeTriangle" -> {LagrangeTriangleBodies}
      [] op = "createThreeBodyChaos" -> ChaosOutcomes
      [] op = "createMultiPlanet" -> {MultiPlanetBodies}

\* The number of bodies of each scenario.
ScenarioSize(op) ==
    CASE op \in {"createOrbitalPair", "createBinarySystem", "createSlingshot",
                 "createCollisionCourse", "createEccentricComet"} -> 2
      [] op \in {"createFigure8", "createLagrangeTriangle", "createThreeBodyChaos"} -> 3
      [] op = "createMultiPlanet" -> 4

\* C5: after a generator the registry is exactly the generator's own body list
\* (2, 2, 2, 2, 2, 3, 3, 3 or 4 bodies, at least 2), whatever it held before,
\* every body has an empty trail, mode is "idle" and tempBody and tempVelocity
\* are null.
C5_GeneratorReplacesRegistry ==
    [][last'.op \in GeneratorOps
          => /\ \E bs \in ScenarioBodies(last'.op) : bodies' = Stamped(bs)
             /\ Len(bodies') = ScenarioSize(last'.op)
             /\ Len(bodies') >= 2
             /\ \A i \in 1..Len(bodies') : bodies'[i].trail = << >>
             /\ mode' = "idle"
             /\ tempBody' = Null
             /\ tempVelocity' = Null]_vars

\* createMultiPlanet has run on a non-empty registry in the middle of a
\* placement.
C5_GeneratorOverPlacement ==
    /\ last.op = "createMultiPlanet"
    /\ last.nonEmpty
    /\ last.mode = "velocity"
    /\ Len(bodies) = 4
    /\ tempBody = Null

\* C6: reset leaves the registry empty, isRunning false, mode "idle" and
\* tempBody and tempVelocity null, from any state.
C6_ResetClearsAll ==
    [][last'.op = "reset"
          => /\ bodies' = << >>
             /\ ~isRunning'
             /\ mode' = "idle"
             /\ tempBody' = Null
             /\ tempVelocity' = Null]_vars

\* reset has run during a run that began in the middle of a placement.
C6_ResetMidPlacementDuringRun ==
    /\ last.op = "reset"
    /\ last.running
    /\ last.mode = "position"
    /\ last.nonEmpty
    /\ ~isRunning
    /\ mode = "idle"

\* C7 as stated: a pointer-up handled in mode "velocity" while not running
\* appends exactly one body and sets mode to "idle"; the body is at the anchor
\* of tempBody, has the radius of tempBody as visualRadius, calculateLogMass of
\* that radius as mass, an empty trail, and (release point - anchor) * 0.03 as
\* velocity; the bodies already in the registry keep their place and value.
C7_PointerUpAppendsBody ==
    [][(~isRunning /\ mode = "velocity" /\ tempBody # Null /\ last'.op = "mouseUp")
          => /\ mode' = "idle"
             /\ Len(bodies') = Len(bodies) + 1
             /\ SubSeq(bodies', 1, Len(bodies)) = bodies
             /\ LET b == bodies'[Len(bodies')]
                    tb == tempBody[1]
                IN  /\ b.x = tb.x
                    /\ b.y = tb.y
                    /\ b.visualRadius = tb.r
                    /\ b.mass = calculateLogMass(tb.r)
                    /\ b.trail = << >>
                    /\ tempVelocity # Null =>
                          /\ b.vx = FMul(FSub(tempVelocity[1].x, tb.x), FDec(3, 100))
                          /\ b.vy = FMul(FSub(tempVelocity[1].y, tb.y), FDec(3, 100))]_vars

\* C8 as stated: a pointer-up handled in mode "velocity" while not running,
\* when no pointer-move has been handled since the pointer-down that began the
\* placement, appends a body of visualRadius 10 and zero velocity and sets
\* mode to "idle".
C8_PointerUpWithoutMoveFinalizes ==
    [][(~isRunning /\ mode = "velocity" /\ tempBody # Null /\ ~last.moved
           /\ last'.op = "mouseUp")
          => /\ mode' = "idle"
             /\ Len(bodies') = Len(bodies) + 1
             /\ LET b == bodies'[Len(bodies')]
                IN  /\ b.visualRadius = FInt(10)
                    /\ b.vx = FZero
                    /\ b.vy = FZero]_vars

\* 10 <= r <= 100.
InRadiusRange(r) == FLe(FInt(10), r) /\ FLe(r, FInt(100))

\* The distance of the pointer location p from the anchor of tb, clamped to
\* [10, 100], computed on the integers (every two pointer locations of
\* SpecPlace are a whole number apart).
ClampedDistance(p, tb) ==
    LET dx == p[1] - FToInt(tb.x)
        dy == p[2] - FToInt(tb.y)
        distSq == dx * dx + dy * dy
    IN  IF distSq <= 10 * 10 THEN FInt(10)
        ELSE IF distSq >= 100 * 100 THEN FInt(100)
        ELSE FInt(CHOOSE d \in 10..100 : d * d = distSq)

\* C9: the radius of tempBody is always in [10, 100]; a pointer-move handled in
\* mode "position" sets it to the pointer's distance from the anchor clamped to
\* [10, 100]; no other step changes the radius of a pending body; and the body
\* a pointer-up appends has that radius as visualRadius.
C9_RadiusClamped ==
    /\ [](tempBody # Null => InRadiusRange(tempBody[1].r))
    /\ [][\A p \in PlacePoints :
             (~isRunning /\ mode = "position" /\ tempBody # Null /\ handleMouseMove(p))
                => /\ tempBody' # Null
                   /\ tempBody'[1].r = ClampedDistance(p, tempBody[1])]_vars
    /\ [][(tempBody # Null /\ tempBody' # Null
              /\ ~(mode = "position" /\ last'.op = "mouseMove"))
             => tempBody'[1].r = tempBody[1].r]_vars
    /\ [][(last'.op = "mouseUp" /\ Len(bodies') = Len(bodies) + 1)
             => bodies'[Len(bodies')].visualRadius = tempBody[1].r]_vars

\* A body anchored at <<100, 100>> whose radius was dragged to <<400, 500>>,
\* at distance 500, has been finalized with visualRadius 100.
C9_DraggedTo500 ==
    /\ last.op = "mouseUp"
    /\ last.mode = "velocity"
    /\ mode = "idle"
    /\ Len(bodies) > 0
    /\ bodies[Len(bodies)].x = FInt(100)
    /\ bodies[Len(bodies)].y = FInt(100)
    /\ bodies[Len(bodies)].visualRadius = FInt(100)

\* C10: every body of the registry has a trail of at most maxTrail points.
C10_TrailBounded == \A i \in 1..Len(bodies) : Len(bodies[i].trail) <= maxTrail

\* A registry has been integrated for more than maxTrail ticks and its trails
\* are full.
C10_TrailFull ==
    /\ last.op = "update"
    /\ ticks > maxTrail
    /\ Len(bodies) >= 2
    /\ \A i \in 1..Len(bodies) : Len(bodies[i].trail) = maxTrail

\* C11: exactly one update callback is pending while isRunning is true and none
\* while it is false, whatever the number of stops and starts; a frame applies
\* one tick to the registry and leaves one callback pending; and no frame
\* changes the registry while isRunning is false.
C11_OneTickPerFrame ==
    /\ [](pendingUpdates = IF isRunning THEN 1 ELSE 0)
    /\ [][last'.op = "update"
             => /\ isRunning
                /\ ticks' = ticks + 1
                /\ bodies' = Integrate(bodies, loopTimeStep[1])
                /\ pendingUpdates' = 1]_vars
    /\ [][~isRunning => (last'.op # "update" /\ (isRunning' \/ pendingUpdates' = 0))]_vars

\* A run was stopped after a tick and has just been started again.
C11_RunRestarted ==
    /\ last.op = "toggleRunning"
    /\ ~last.running
    /\ isRunning
    /\ ticks >= 1
    /\ pendingUpdates = 1

\* C12 as stated: every tick integrates the registry with baseTimeStep times
\* the simulationSpeed of the state the tick is taken in.
C12_TickUsesCurrentSpeed ==
    [][last'.op = "update"
          => bodies' = Integrate(bodies, timeStep(simulationSpeed))]_vars

\* C13: simulationSpeed is always in [0.1, 50] and timeStep is positive; an
\* increaseSpeed call ends at 50 or at a higher speed, a decreaseSpeed call
\* ends at 0.1 or at a lower speed.
C13_SpeedInRange ==
    /\ [](/\ FLe(FDec(1, 10), simulationSpeed)
          /\ FLe(simulationSpeed, FInt(50))
          /\ FLt(FZero, timeStep(simulationSpeed)))
    /\ [][last'.op = "increaseSpeed"
             => (simulationSpeed' = FInt(50) \/ FLt(simulationSpeed, simulationSpeed'))]_vars
    /\ [][last'.op = "decreaseSpeed"
             => (simulationSpeed' = FDec(1, 10) \/ FLt(simulationSpeed', simulationSpeed))]_vars

\* decreaseSpeed has taken the speed to the lower limit: the step from 0.25
\* would have reached 0.
C13_ClampedAtMinimum ==
    /\ last.op = "decreaseSpeed"
    /\ simulationSpeed = FDec(1, 10)

\* The pull of body j on body i at the positions they have in prev:
\* G * m_i * m_j / (d^2 + 500) along the unit vector from i to j.
PullOf(prev, i, j) ==
    LET dx == FSub(prev[j].x, prev[i].x)
        dy == FSub(prev[j].y, prev[i].y)
        distSq == FAdd(FAdd(FMul(dx, dx), FMul(dy, dy)), FInt(500))
        pull == FDiv(FMul(FMul(G, prev[i].mass), prev[j].mass), distSq)
    IN  << FMul(pull, FDiv(dx, FSqrt(distSq))), FMul(pull, FDiv(dy, FSqrt(distSq))) >>

\* The net force on body i from bodies 1..j of prev, summed in index order.
RECURSIVE NetPull(_, _, _)
NetPull(prev, i, j) ==
    IF j = 0 THEN <<FZero, FZero>>
    ELSE IF j = i THEN NetPull(prev, i, j - 1)
    ELSE LET sum == NetPull(prev, i, j - 1)
             pull == PullOf(prev, i, j)
         IN  <<FAdd(sum[1], pull[1]), FAdd(sum[2], pull[2])>>

\* Body i of prev after one semi-implicit Euler step of length dt: the new
\* velocity from the forces at the old positions, the new position from the
\* new velocity.
EulerStep(prev, i, dt) ==
    LET f == NetPull(prev, i, Len(prev))
        vx == FAdd(prev[i].vx, FMul(FDiv(f[1], prev[i].mass), dt))
        vy == FAdd(prev[i].vy, FMul(FDiv(f[2], prev[i].mass), dt))
    IN  [vx |-> vx, vy |-> vy,
         x |-> FAdd(prev[i].x, FMul(vx, dt)),
         y |-> FAdd(prev[i].y, FMul(vy, dt))]

\* C14: a tick gives every body the velocity v + (F / m) * timeStep, with F
\* the net force at the pre-tick positions of all bodies, and the position
\* x + (new velocity) * timeStep.
C14_SemiImplicitEuler ==
    [][last'.op = "update"
          => /\ Len(bodies') = Len(bodies)
             /\ \A i \in 1..Len(bodies) :
                   LET e == EulerStep(bodies, i, loopTimeStep[1])
                   IN  /\ bodies'[i].vx = e.vx
                       /\ bodies'[i].vy = e.vy
                       /\ bodies'[i].x = e.x
                       /\ bodies'[i].y = e.y]_vars

\* The four bodies of the multi-planet scenario have been integrated once.
C14_FourBodiesTicked ==
    /\ last.op = "update"
    /\ Len(bodies) = 4
    /\ ticks = 1
    /\ bodies[2].vx # FZero

\* C16 as stated: no two bodies of the registry have the same id.
C16_UniqueIds ==
    \A i, j \in 1..Len(bodies) : i # j => bodies[i].id # bodies[j].id

\* C17: every body of the registry, created by a generator or by placement and
\* carried through any number of ticks, has a mass greater than zero that is
\* the logarithmic mass of its visual radius.
C17_MassFromRadius ==
    \A i \in 1..Len(bodies) :
        /\ FLt(FZero, bodies[i].mass)
        /\ bodies[i].mass = calculateLogMass(bodies[i].visualRadius)

\* A placed body of radius 100 has been through a tick.
C17_PlacedBodyTicked ==
    /\ last.op = "update"
    /\ \E i \in 1..Len(bodies) : bodies[i].visualRadius = FInt(100) /\ bodies[i].id = now

NearlyEqual(a, b) ==
    LET d == FSub(a, b)
        absd == IF d.s = -1 THEN FNeg(d) ELSE d
    IN  FLe(FMul(absd, FInt(1000)), b)

\* C20: right after the orbital-pair generator the registry holds a central
\* body at rest and a second body 200 away from it along the x axis whose
\* velocity has no component along that axis (purely tangential) and whose
\* speed v satisfies v^2 * 200 = G * M_central up to rounding, G being the
\* constant the integrator's force uses and M_central the mass the
\* integrator reads, which is the logarithmic mass of the central radius.
C20_CircularOrbit ==
    last.op = "createOrbitalPair"
        => /\ Len(bodies) = 2
           /\ bodies[1].vx = FZero /\ bodies[1].vy = FZero
           /\ bodies[2].y = bodies[1].y
           /\ FSub(bodies[2].x, bodies[1].x) = FInt(200)
           /\ bodies[2].vx = FZero
           /\ FLt(FZero, bodies[2].vy)
           /\ bodies[1].mass = calculateLogMass(bodies[1].visualRadius)
           /\ NearlyEqual(FMul(FMul(bodies[2].vy, bodies[2].vy), FInt(200)),
                          FMul(G, bodies[1].mass))

\* The orbital pair has been generated over a pending placement.
C20_PairGenerated ==
    /\ last.op = "createOrbitalPair"
    /\ last.mode = "velocity"
    /\ Len(bodies) = 2
    /\ bodies[2].trail = << >>

RefsOf(refs) == {refs[k] : k \in 1..Len(refs)}

\* C18: the objects behind the `bodies` state always hold the registry as it
\* was last set, so that a reader sees the state before an update or the
\* state after the whole update; while an update runs, the only objects
\* written are its own new ones, never those of the array it started from;
\* and the array it returns is the whole update of the one it started from.
C18_SnapshotConsistent ==
    /\ [](Deref(bodyRefs) = bodies)
    /\ [][tick'.pc # "idle"
             => /\ bodyRefs' = bodyRefs
                /\ \A a \in 1..Len(heap) :
                       heap'[a] # heap[a]
                           => (a \in RefsOf(tick.work) /\ a \notin RefsOf(bodyRefs))]_vars
    /\ [][tick.pc = "commit"
             => /\ bodies' = Integrate(bodies, loopTimeStep[1])
                /\ bodies' = tickLog'[Len(tickLog')].post
                /\ tickLog'[Len(tickLog')].pre = bodies]_vars

\* An update is half way: every velocity and the first position are written in
\* its own objects, which are neither the registry before nor the one after.
C18_UpdateHalfWay ==
    /\ tick.pc = "position"
    /\ tick.i = 2
    /\ Deref(tick.work) # bodies
    /\ Deref(tick.work) # Integrate(bodies, loopTimeStep[1])

\* C21: right after the binary-system generator the registry holds two bodies
\* on the horizontal line through the canvas centre, one on each side of it,
\* at distances r1 and r2 with r1 + r2 = 250 and m1 * r1 = m2 * r2; their
\* velocities are vertical and opposite, of magnitude omega * r_i with
\* omega = sqrt(G * (m1 + m2) / 250^3), and m1 * v1 = m2 * v2, so that the
\* total momentum is zero.  Equalities are up to rounding.
C21_BarycenterBalance ==
    last.op = "createBinarySystem"
        => /\ Len(bodies) = 2
           /\ LET b1 == bodies[1]
                  b2 == bodies[2]
                  r1 == FSub(centerX, b1.x)
                  r2 == FSub(b2.x, centerX)
                  omega == FSqrt(FDiv(FMul(G, FAdd(b1.mass, b2.mass)),
                                      FPowInt(FInt(250), 3)))
              IN  /\ b1.y = centerY /\ b2.y = centerY
                  /\ FLt(FZero, r1) /\ FLt(FZero, r2)
                  /\ NearlyEqual(FAdd(r1, r2), FInt(250))
                  /\ NearlyEqual(FMul(b1.mass, r1), FMul(b2.mass, r2))
                  /\ b1.vx = FZero /\ b2.vx = FZero
                  /\ FLt(b1.vy, FZero) /\ FLt(FZero, b2.vy)
                  /\ NearlyEqual(FNeg(b1.vy), FMul(omega, r1))
                  /\ NearlyEqual(b2.vy, FMul(omega, r2))
                  /\ NearlyEqual(FMul(b1.mass, FNeg(b1.vy)), FMul(b2.mass, b2.vy))

\* The binary system has been generated over a registry that held bodies.
C21_BinaryGenerated ==
    /\ last.op = "createBinarySystem"
    /\ last.nonEmpty
    /\ Len(bodies) = 2
    /\ bodies[1].color = "#ef4444"

\* The distance between the first two bodies of the registry.
PairDistance ==
    LET dx == FSub(bodies[2].x, bodies[1].x)
        dy == FSub(bodies[2].y, bodies[1].y)
    IN  FSqrt(FAdd(FMul(dx, dx), FMul(dy, dy)))

\* The registry is the orbital pair (radii 60 and 25) after `ticks` ticks.
OrbitalPairRun ==
    /\ Len(bodies) = 2
    /\ bodies[1].visualRadius = FInt(60)
    /\ bodies[2].visualRadius = FInt(25)

\* C22: from the orbital-pair scenario at speed 1.0, after each of the first
\* 1000 ticks the two bodies are between 190 and 210 apart (200 +- 5%).
C22_OrbitStaysCircular ==
    (OrbitalPairRun /\ ticks <= 1000 /\ simulationSpeed = FInt(1))
        => (FLe(FInt(190), PairDistance) /\ FLe(PairDistance, FInt(210)))

\* The orbital pair has been through exactly 1000 ticks and has moved 200 away
\* from where it started.
C22_ThousandTicks ==
    /\ OrbitalPairRun
    /\ ticks = 1000
    /\ last.op = "update"
    /\ FLt(bodies[2].x, centerX)

\* C23 as stated: at most one draw callback is pending for the next frame, it
\* paints the current registry, and the canvas shows the current registry.
C23_OneCurrentDrawLoop ==
    /\ Len(drawLoops) <= 1
    /\ \A k \in 1..Len(drawLoops) : drawLoops[k] = bodies
    /\ painted = bodies

\* C24: the mode changes only from idle to position by a pointer-down, from
\* position to velocity by a pointer-up, from velocity to idle by a pointer-up,
\* and from anything to idle by reset or a generator; a pointer-down outside
\* idle and a pointer-move or pointer-up in idle change neither the mode, nor
\* the pending body, nor the velocity target, nor the registry; and a
\* pointer-down in idle, outside a run, makes the pending body the down
\* location with radius 10.
C24_PlacementProtocol ==
    /\ [][mode' # mode
             => \/ mode = "idle" /\ mode' = "position" /\ last'.op = "mouseDown"
                \/ mode = "position" /\ mode' = "velocity" /\ last'.op = "mouseUp"
                \/ mode = "velocity" /\ mode' = "idle" /\ last'.op = "mouseUp"
                \/ mode' = "idle" /\ last'.op \in GeneratorOps \cup {"reset"}]_vars
    /\ [][(\/ last'.op = "mouseDown" /\ mode # "idle"
           \/ last'.op \in {"mouseMove", "mouseUp"} /\ mode = "idle")
             => UNCHANGED <<mode, tempBody, tempVelocity, bodies>>]_vars
    /\ [][(last'.op = "mouseDown" /\ mode = "idle" /\ ~isRunning)
             => /\ mode' = "position"
                /\ \E p \in DownPoints :
                       tempBody' = Some([x |-> FInt(p[1]), y |-> FInt(p[2]), r |-> FInt(10)])
                /\ UNCHANGED <<bodies, tempVelocity>>]_vars

\* A pointer-down was handled, outside a run, while a placement was choosing
\* its velocity with a radius other than 10.
C24_DownDuringPlacement ==
    /\ last.op = "mouseDown"
    /\ ~last.running
    /\ last.mode = "velocity"
    /\ mode = "velocity"
    /\ tempBody # Null
    /\ tempBody[1].r # FInt(10)

\* C25: a pointer-move handled while the velocity is being chosen makes the
\* velocity target the pointer location and leaves the pending body (anchor
\* and radius), the mode and the registry as they were; as long as a placement
\* is pending its anchor does not change, nor does its radius once the
\* velocity is being chosen; and the body a pointer-up adds to the registry
\* stands at the anchor with that radius.
C25_VelocityMoveFrame ==
    /\ [][(last'.op = "mouseMove" /\ mode = "velocity")
             => /\ UNCHANGED <<tempBody, mode, bodies>>
                /\ (~isRunning /\ tempBody # Null)
                       => \E p \in PlacePoints :
                              tempVelocity' = Some([x |-> FInt(p[1]), y |-> FInt(p[2])])]_vars
    /\ [][(mode # "idle" /\ mode' # "idle")
             => /\ tempBody # Null /\ tempBody' # Null
                /\ tempBody'[1].x = tempBody[1].x
                /\ tempBody'[1].y = tempBody[1].y
                /\ mode = "velocity" => tempBody' = tempBody]_vars
    /\ [][(last'.op = "mouseUp" /\ bodies' # bodies)
             => /\ tempBody # Null
                /\ Len(bodies') = Len(bodies) + 1
                /\ bodies'[Len(bodies')].x = tempBody[1].x
                /\ bodies'[Len(bodies')].y = tempBody[1].y
                /\ bodies'[Len(bodies')].visualRadius = tempBody[1].r]_vars

\* The pointer has moved twice while the velocity was being chosen, the second
\* time to a place that is not at the radius's distance from the anchor.
C25_MovedTwiceInVelocity ==
    /\ last.op = "mouseMove"
    /\ last.mode = "velocity"
    /\ last.moved
    /\ tempVelocity = Some([x |-> FInt(400), y |-> FInt(500)])
    /\ tempBody # Null
    /\ tempBody[1].r = FInt(40)

\* C26: a tick leaves every body with its previous trail, in the same order,
\* followed by the position the body had before the tick; a trail that was
\* full loses its first (oldest) point and no other.
C26_TrailAppendsInOrder ==
    [][(last'.op = "update" /\ ticks' = ticks + 1)
          => /\ Len(bodies') = Len(bodies)
             /\ \A i \in 1..Len(bodies) :
                    LET p == [x |-> bodies[i].x, y |-> bodies[i].y]
                    IN  bodies'[i].trail =
                            IF Len(bodies[i].trail) < maxTrail
                            THEN Append(bodies[i].trail, p)
                            ELSE Append(Tail(bodies[i].trail), p)]_vars

\* The orbital pair has been through maxTrail + 1 ticks: the trails are full
\* and no longer start with the positions the scenario began with.
C26_OldestDiscarded ==
    /\ last.op = "update"
    /\ ticks = maxTrail + 1
    /\ OrbitalPairRun
    /\ Len(bodies[2].trail) = maxTrail
    /\ bodies[2].trail[1] # [x |-> FAdd(centerX, FInt(200)), y |-> centerY]

\* C27: whatever the registry holds, the divisors of a tick are not zero: for
\* every two bodies the softened squared distance is at least 500 and its
\* square root is positive, and every mass is positive; two bodies at the
\* same position exert no force on each other.
C27_NoDivisionByZero ==
    \A i \in 1..Len(bodies) :
        /\ FLt(FZero, bodies[i].mass)
        /\ \A j \in 1..Len(bodies) \ {i} :
               /\ FLe(FInt(500), SoftenedDistSq(bodies[i], bodies[j]))
               /\ FLt(FZero, FSqrt(SoftenedDistSq(bodies[i], bodies[j])))
               /\ (bodies[i].x = bodies[j].x /\ bodies[i].y = bodies[j].y)
                      => AddForce(<<FZero, FZero>>, bodies[i], bodies[j]) = <<FZero, FZero>>

\* Two bodies placed at the same position have been through a tick and are
\* still at one position.
C27_CoincidentBodiesTicked ==
    /\ last.op = "update"
    /\ ticks = 1
    /\ Len(bodies) = 2
    /\ bodies[1].x = bodies[2].x
    /\ bodies[1].y = bodies[2].y
    /\ bodies[1].trail # << >>

\* C28: in every reachable state the mode is idle exactly when there is no
\* pending body, and there is a velocity target only in velocity mode.
C28_PlacementConsistent ==
    /\ (mode = "idle") <=> (tempBody = Null)
    /\ tempVelocity # Null => mode = "velocity"

\* Reset was clicked while a placement had its velocity target.
C28_ResetWithTarget ==
    /\ last.op = "reset"
    /\ last.mode = "velocity"
    /\ last.moved
    /\ mode = "idle"

Identity(b) == [id |-> b.id, mass |-> b.mass, visualRadius |-> b.visualRadius, color |-> b.color]

\* The identities of the registry, in its order.
Identities(bs) == [i \in 1..Len(bs) |-> Identity(bs[i])]

\* C30: a tick leaves the number of bodies, their order and the id, mass,
\* visualRadius and color of each as they were; while a run goes on these
\* change only by reset or a generator; and at any time they change only by
\* reset, by a generator, or by a pointer-up outside a run that adds one body
\* at the end.
C30_TickKeepsMembership ==
    /\ [][last'.op = "update" => Identities(bodies') = Identities(bodies)]_vars
    /\ [][(isRunning /\ Identities(bodies') # Identities(bodies))
             => last'.op \in GeneratorOps \cup {"reset"}]_vars
    /\ [][Identities(bodies') # Identities(bodies)
             => \/ last'.op \in GeneratorOps \cup {"reset"}
                \/ /\ last'.op = "mouseUp" /\ ~isRunning
                   /\ Len(bodies') = Len(bodies) + 1
                   /\ SubSeq(bodies', 1, Len(bodies)) = bodies]_vars

\* Four bodies of four colours have been through a tick that moved them.
C30_FourColoursTicked ==
    /\ last.op = "update"
    /\ Len(bodies) = 4
    /\ Cardinality({bodies[i].color : i \in 1..4}) = 4
    /\ \A i \in 1..4 : bodies[i].trail # << >>
    /\ bodies[2].x # bodies[2].trail[1].x \/ bodies[2].y # bodies[2].trail[1].y
====
